---- MODULE Spec2Model ----
(***************************************************************************)
(* The messaging session of enki's rabbitmq package: Session (registration,*)
(* Declare, Publish, Consume, Shutdown) and Connection (dial, watchdog,    *)
(* reconnect loop, Channel, Shutdown), with the broker as the environment. *)
(***************************************************************************)
EXTENDS Integers, Sequences, FiniteSets, TLC

\* ---------------------------------------------------------------- bounds
\* dial attempts (amqp.Dial calls) per Connection
MaxDials == 3
\* deliveries the broker sends over the life of the session
MaxDeliveries == 2
\* AddSubscription calls, and AddPublisher calls, of the concurrent
\* specifications
MaxSubs == 1
\* Publish calls of the concurrent specifications
MaxPublishes == 1
\* AddSubscription / AddPublisher calls of the registration specification
MaxRegs == 3

\* ---------------------------------------------------------------- values
Roles == {"consumer", "producer"}
Nil == 0
Handles == 1..MaxDials

\* inputs of the registration specification
Exchanges == {"e1", "e2"}
Queues == {"", "q1", "q2"}
Keys == {"a", "b"}
Handlers == {"H1", "H2"}
\* inputs of the concurrent specification: key "a" is registered, "b" never
SessExchange == "e1"
SessQueue == "q1"
SessKey == "a"
SessHandler == "H1"
Events == {"proto", "unmarshalable", "not_proto"}

EmptyMap == [k \in {} |-> ""]
Put(m, k, v) == [x \in (DOMAIN m) \cup {k} |-> IF x = k THEN v ELSE m[x]]

NoCrash == [cause |-> "none", op |-> "none", role |-> "none"]
NoRet == [op |-> "none", err |-> "none", role |-> "none", cause |-> "none"]
NoPub == [key |-> "", event |-> "", res |-> "none", registered |-> FALSE, exchange |-> "",
          channel |-> FALSE, conn |-> "none"]
NoArg == [op |-> "none", exchange |-> "", queue |-> "", key |-> "", handler |-> ""]
SdOff == [pc |-> "off", role |-> "consumer"]
FgReturned == [pc |-> "returned", role |-> "consumer", idx |-> 0, ch |-> Nil]
FgIdle == [pc |-> "idle", role |-> "consumer", idx |-> 0, ch |-> Nil]

VARIABLES
  \* Session fields
  subscribers, publishers, consumerQueue, consumerDecls, producerDecls,
  sessionCancelled, sessConn,
  \* Connection fields, per role
  conn, connected, connCancelled, notifyClose,
  \* the broker's side of every transport handle a dial returned
  transport, dials, closeCalls,
  \* positions: dial() per Connection, watchdog per Connection, the
  \* foreground caller (registration and Declare), Consume, Shutdown
  dial, wd, fg, cs, sd,
  \* Consume's feed and current delivery
  feed, feedq, delivery, delivered,
  \* what the calls returned
  ret, arg, replayed, pub, published, crash, nSubs, nPubs, nPublishes,
  dispatched, shutdownSaw

sessVars == <<subscribers, publishers, consumerQueue, consumerDecls, producerDecls,
              sessionCancelled, sessConn>>
regVars == <<subscribers, publishers, consumerQueue, consumerDecls, producerDecls>>
connVars == <<conn, connected, connCancelled, notifyClose, transport, dials, closeCalls,
              dial, wd>>
consumeVars == <<cs, feed, feedq, delivery, delivered, dispatched>>
callVars == <<ret, arg, replayed, pub, published, nSubs, nPubs, nPublishes>>
vars == <<sessVars, connVars, fg, sd, shutdownSaw, consumeVars, callVars, crash>>

\* NewSession and the zero values of everything else
Init ==
  /\ subscribers = EmptyMap
  /\ publishers = EmptyMap
  /\ consumerQueue = ""
  /\ consumerDecls = <<>>
  /\ producerDecls = <<>>
  /\ sessionCancelled = FALSE
  /\ sessConn = [r \in Roles |-> FALSE]
  /\ conn = [r \in Roles |-> Nil]
  /\ connected = [r \in Roles |-> FALSE]
  /\ connCancelled = [r \in Roles |-> FALSE]
  /\ notifyClose = [r \in Roles |-> Nil]
  /\ transport = [r \in Roles |-> [h \in Handles |-> "unused"]]
  /\ dials = [r \in Roles |-> 0]
  /\ closeCalls = [r \in Roles |-> 0]
  /\ dial = [r \in Roles |-> "idle"]
  /\ wd = [r \in Roles |-> "off"]
  /\ fg = FgIdle
  /\ cs = "off"
  /\ sd = SdOff
  /\ shutdownSaw = [r \in Roles |-> "none"]
  /\ feed = Nil
  /\ delivery = ""
  /\ delivered = 0
  /\ feedq = <<>>
  /\ dispatched = <<>>
  /\ ret = NoRet
  /\ arg = NoArg
  /\ replayed = <<>>
  /\ pub = NoPub
  /\ published = <<>>
  /\ crash = NoCrash
  /\ nSubs = 0
  /\ nPubs = 0
  /\ nPublishes = 0

\* a panic ends the process: no goroutine takes another step
Alive == crash.cause = "none"
Panic(cause, op, role) == crash' = [cause |-> cause, op |-> op, role |-> role]

\* ---------------------------------------------------- Session registration
AutoExchange(e) == <<"exchange", e>>
AutoQueue(q) == <<"queue", q>>
AutoBinding(k, q, e) == <<"binding", k, q, e>>

\* AddSubscription's guard (session.go:54), and a variant without it
QueueConflictUnchecked(q) == FALSE
\* and one that compares with == for !=
QueueConflictOnSameName(q) == consumerQueue # "" /\ consumerQueue = q
QueueConflict(q) == consumerQueue # "" /\ consumerQueue # q

AddSubscription(e, q, k, h) ==
  /\ Alive /\ fg.pc = "idle"
  /\ nSubs' = nSubs + 1
  /\ arg' = [op |-> "AddSubscription", exchange |-> e, queue |-> q, key |-> k, handler |-> h]
  /\ IF QueueConflict(q)
     THEN /\ ret' = [NoRet EXCEPT !.op = "AddSubscription", !.err = "queue_defined"]
          /\ UNCHANGED <<consumerQueue, consumerDecls, subscribers>>
     ELSE /\ consumerQueue' = q
          /\ consumerDecls' = consumerDecls \o
               <<AutoExchange(e), AutoQueue(q), AutoBinding(k, q, e)>>
          /\ subscribers' = Put(subscribers, k, h)
          /\ ret' = [NoRet EXCEPT !.op = "AddSubscription"]
  /\ fg' = FgReturned
  /\ UNCHANGED <<publishers, producerDecls, sessionCancelled, sessConn, connVars, sd,
                 shutdownSaw, consumeVars, replayed, pub, published, crash, nPubs, nPublishes>>

\* AddPublisher's guard (session.go:73), and a variant without it
PublisherExistsUnchecked(k) == FALSE
PublisherExists(k) == k \in DOMAIN publishers

AddPublisher(e, k) ==
  /\ Alive /\ fg.pc = "idle"
  /\ nPubs' = nPubs + 1
  /\ arg' = [op |-> "AddPublisher", exchange |-> e, queue |-> "", key |-> k, handler |-> ""]
  /\ IF PublisherExists(k)
     THEN /\ ret' = [NoRet EXCEPT !.op = "AddPublisher", !.err = "already_registered"]
          /\ UNCHANGED <<producerDecls, publishers>>
     ELSE /\ producerDecls' = Append(producerDecls, AutoExchange(e))
          /\ publishers' = Put(publishers, k, e)
          /\ ret' = [NoRet EXCEPT !.op = "AddPublisher"]
  /\ fg' = FgReturned
  /\ UNCHANGED <<subscribers, consumerQueue, consumerDecls, sessionCancelled, sessConn,
                 connVars, sd, shutdownSaw, consumeVars, replayed, pub, published,
                 crash, nSubs, nPublishes>>

\* -------------------------------------------------------------- Connection
\* Connection.Channel: c.conn.Channel() under the mutex. A nil *Connection or a
\* nil c.conn is dereferenced (a panic); a handle the broker has closed
\* returns amqp's error and no channel.
Channel(r) ==
  IF ~sessConn[r] THEN "nil_connection"
  ELSE IF conn[r] = Nil THEN "nil_transport"
  ELSE IF transport[r][conn[r]] = "open" THEN "ok"
  ELSE "error"

\* Connection.IsConnected on a Connection that exists
IsConnected(r) == connected[r]

\* dial(): setConnected(false), then amqp.Dial is in flight; first a variant
\* that leaves the flag as it is
DialBeginKeepingFlag(r) ==
  /\ dials[r] < MaxDials
  /\ dial' = [dial EXCEPT ![r] = "inflight"]
  /\ dials' = [dials EXCEPT ![r] = @ + 1]
  /\ UNCHANGED connected
DialBegin(r) ==
  /\ dials[r] < MaxDials
  /\ connected' = [connected EXCEPT ![r] = FALSE]
  /\ dial' = [dial EXCEPT ![r] = "inflight"]
  /\ dials' = [dials EXCEPT ![r] = @ + 1]

\* dial(): amqp.Dial succeeded; changeConnection installs the handle and a
\* fresh close-notification channel registered on it. First a variant that
\* keeps the channel it has, registered on the handle of the first dial.
DialSucceedKeepingChannel(r) ==
  /\ Alive /\ dial[r] = "inflight"
  /\ transport' = [transport EXCEPT ![r][dials[r]] = "open"]
  /\ conn' = [conn EXCEPT ![r] = dials[r]]
  /\ notifyClose' = [notifyClose EXCEPT ![r] = IF @ = Nil THEN dials[r] ELSE @]
  /\ dial' = [dial EXCEPT ![r] = "installed"]
  /\ UNCHANGED <<sessVars, connected, connCancelled, dials, closeCalls, wd, fg, sd,
                 shutdownSaw, consumeVars, callVars, crash>>
DialSucceed(r) ==
  /\ Alive /\ dial[r] = "inflight"
  /\ transport' = [transport EXCEPT ![r][dials[r]] = "open"]
  /\ conn' = [conn EXCEPT ![r] = dials[r]]
  /\ notifyClose' = [notifyClose EXCEPT ![r] = dials[r]]
  /\ dial' = [dial EXCEPT ![r] = "installed"]
  /\ UNCHANGED <<sessVars, connected, connCancelled, dials, closeCalls, wd, fg, sd,
                 shutdownSaw, consumeVars, callVars, crash>>

\* dial(): setConnected(true), return conn
DialSetConnected(r) ==
  /\ Alive /\ dial[r] = "installed"
  /\ connected' = [connected EXCEPT ![r] = TRUE]
  /\ dial' = [dial EXCEPT ![r] = "returned"]
  /\ UNCHANGED <<sessVars, conn, connCancelled, notifyClose, transport, dials, closeCalls,
                 wd, fg, sd, shutdownSaw, consumeVars, callVars, crash>>

\* the foreground caller has looked at what its call returned
CallerContinues ==
  /\ Alive /\ fg.pc = "returned"
  /\ fg' = FgIdle
  /\ ret' = NoRet
  /\ arg' = NoArg
  /\ replayed' = <<>>
  /\ UNCHANGED <<sessVars, connVars, sd, shutdownSaw, consumeVars, pub, published, crash,
                 nSubs, nPubs, nPublishes>>

\* ------------------------------------------------------- Session.Declare
Decls(r) == IF r = "consumer" THEN consumerDecls ELSE producerDecls

\* what the broker answers to one declaration: nil, or one of its errors
DeclareResults == {"ok", "access_refused", "precondition_failed"}

\* the broker's answers to n declarations sent on one channel: all nil, or
\* one of them an error (a channel on which a declaration failed is closed by
\* the broker, what it would answer after that is never seen)
BrokerAnswers(n) ==
  {[i \in 1..n |-> "ok"]}
    \cup {[i \in 1..n |-> IF i = f THEN e ELSE "ok"] :
             f \in 1..n, e \in DeclareResults \ {"ok"}}

\* roles in the order Declare replays them (session.go:147, 157), after the
\* reversed order
ReplayOrderReversed == <<"producer", "consumer">>
ReplayOrder == <<"consumer", "producer">>

\* ensureConnections: if len(decls) > 0 && conn == nil; first a variant that
\* does not look at the declarations
NeedsConnectionUnregistered(r) == ~sessConn[r]
\* and one that does not look at the Connection the Session has
NeedsConnectionAgain(r) == Len(Decls(r)) > 0
NeedsConnection(r) == Len(Decls(r)) > 0 /\ ~sessConn[r]

\* where ensureConnections goes from role r on: the next role that needs a
\* Connection, or the replay
EnsureFrom(r) ==
  IF r = "consumer" /\ NeedsConnection("consumer")
    THEN [FgIdle EXCEPT !.pc = "create", !.role = "consumer"]
  ELSE IF NeedsConnection("producer")
    THEN [FgIdle EXCEPT !.pc = "create", !.role = "producer"]
  ELSE [FgIdle EXCEPT !.pc = "replay", !.role = ReplayOrder[1]]

DeclareStart ==
  /\ Alive /\ fg.pc = "idle"
  /\ fg' = EnsureFrom("consumer")
  /\ arg' = [NoArg EXCEPT !.op = "Declare"]
  /\ UNCHANGED <<sessVars, connVars, sd, shutdownSaw, consumeVars, ret, replayed, pub,
                 published, crash, nSubs, nPubs, nPublishes>>

\* NewConnection, stored in the Session, then Connect() on it: dial()
EnsureCreate ==
  /\ Alive /\ fg.pc = "create"
  /\ sessConn' = [sessConn EXCEPT ![fg.role] = TRUE]
  /\ DialBegin(fg.role)
  /\ fg' = [fg EXCEPT !.pc = "connect"]
  /\ UNCHANGED <<regVars, sessionCancelled, conn, connCancelled, notifyClose, transport,
                 closeCalls, wd, sd, shutdownSaw, consumeVars, callVars, crash>>

\* Connect: the dial failed; c.conn is the nil the dial returned, no watchdog.
\* First a variant in which Declare ignores the error and goes on.
ConnectFailedGoesOn ==
  /\ Alive /\ fg.pc = "connect" /\ dial[fg.role] = "inflight"
  /\ conn' = [conn EXCEPT ![fg.role] = Nil]
  /\ dial' = [dial EXCEPT ![fg.role] = "idle"]
  /\ fg' = [FgIdle EXCEPT !.pc = "replay", !.role = ReplayOrder[1]]
  /\ UNCHANGED <<sessVars, connected, connCancelled, notifyClose, transport, dials,
                 closeCalls, wd, sd, shutdownSaw, consumeVars, callVars, crash>>
ConnectFailed ==
  /\ Alive /\ fg.pc = "connect" /\ dial[fg.role] = "inflight"
  /\ conn' = [conn EXCEPT ![fg.role] = Nil]
  /\ dial' = [dial EXCEPT ![fg.role] = "idle"]
  /\ ret' = [NoRet EXCEPT !.op = "Declare", !.err = "connect", !.role = fg.role]
  /\ fg' = FgReturned
  /\ UNCHANGED <<sessVars, connected, connCancelled, notifyClose, transport, dials,
                 closeCalls, wd, sd, shutdownSaw, consumeVars, arg, replayed, pub,
                 published, crash, nSubs, nPubs, nPublishes>>

\* Connect: c.conn = the dialled handle; go monitorConnection()
ConnectReturn ==
  /\ Alive /\ fg.pc = "connect" /\ dial[fg.role] = "returned"
  /\ conn' = [conn EXCEPT ![fg.role] = dials[fg.role]]
  /\ dial' = [dial EXCEPT ![fg.role] = "idle"]
  /\ wd' = [wd EXCEPT ![fg.role] = "select"]
  /\ fg' = IF fg.role = "consumer" THEN EnsureFrom("producer")
           ELSE [FgIdle EXCEPT !.pc = "replay", !.role = ReplayOrder[1]]
  /\ UNCHANGED <<sessVars, connected, connCancelled, notifyClose, transport, dials,
                 closeCalls, sd, shutdownSaw, consumeVars, callVars, crash>>

\* whether a failed declaration ends the invocation (session.go:150, 160),
\* after a variant that goes on
AbortOnErrorNever == FALSE
AbortOnError == TRUE

\* for _, declare := range decls { if err := declare(ch); err != nil { return } }
\* from declaration i on, res[i] being the broker's answer to declaration i:
\* the declarations invoked, and the index of the one that made Declare return
RECURSIVE ReplayFrom(_, _, _)
ReplayFrom(r, i, res) ==
  IF i > Len(Decls(r)) THEN [log |-> <<>>, failed |-> 0]
  ELSE LET entry == [role |-> r, idx |-> i, res |-> res[i], nilch |-> FALSE] IN
       IF res[i] # "ok" /\ AbortOnError THEN [log |-> <<entry>>, failed |-> i]
       ELSE LET rest == ReplayFrom(r, i + 1, res) IN
            [log |-> <<entry>> \o rest.log, failed |-> rest.failed]

\* after a role's declarations: the next role's, then return nil
AfterReplay(r) ==
  IF r = ReplayOrder[1] THEN [FgIdle EXCEPT !.pc = "replay", !.role = ReplayOrder[2]]
                        ELSE FgReturned
RetAfterReplay(r) ==
  IF r = ReplayOrder[1] THEN ret ELSE [NoRet EXCEPT !.op = "Declare"]

\* if len(decls) > 0 { ch, _ := conn.Channel(); replay }: the error of
\* Channel() is dropped and ch is nil then
DeclareRole ==
  /\ Alive /\ fg.pc = "replay"
  /\ LET r == fg.role
         c == Channel(r) IN
     IF Len(Decls(r)) = 0
     THEN /\ fg' = AfterReplay(r)
          /\ ret' = RetAfterReplay(r)
          /\ UNCHANGED <<crash, replayed>>
     ELSE IF c \in {"nil_connection", "nil_transport"}
     THEN /\ Panic(c, "Declare", r)
          /\ UNCHANGED <<fg, ret, replayed>>
     ELSE IF c = "error"
     THEN /\ replayed' = Append(replayed, [role |-> r, idx |-> 1, res |-> "panic",
                                           nilch |-> TRUE])
          /\ Panic("nil_channel", "Declare", r)
          /\ UNCHANGED <<fg, ret>>
     ELSE \E res \in BrokerAnswers(Len(Decls(r))) :
            LET run == ReplayFrom(r, 1, res) IN
            /\ replayed' = replayed \o run.log
            /\ UNCHANGED crash
            /\ IF run.failed # 0
               THEN /\ ret' = [op |-> "Declare", err |-> "declare", role |-> r,
                               cause |-> res[run.failed]]
                    /\ fg' = FgReturned
               ELSE /\ fg' = AfterReplay(r)
                    /\ ret' = RetAfterReplay(r)
  /\ UNCHANGED <<sessVars, connVars, sd, shutdownSaw, consumeVars, arg, pub, published,
                 nSubs, nPubs, nPublishes>>

\* ------------------------------------------------------- Session.Publish
\* the producer Connection as Publish finds it
ProducerState ==
  IF ~sessConn["producer"] THEN "none"
  ELSE IF conn["producer"] = Nil THEN "nil"
  ELSE transport["producer"][conn["producer"]]

\* exchange, ok := s.publishers[routingKey]: a missing key reads as ""; with a
\* variant of the lookup that never misses, and after a variant that hands
\* ch.Publish the routing key for the exchange
PublishExchangeAsKey(k) == k
PublishExchange(k) == IF k \in DOMAIN publishers THEN publishers[k] ELSE ""
PublisherRegisteredUnchecked(k) == TRUE
PublisherRegistered(k) == k \in DOMAIN publishers

Publish(k, ev) ==
  /\ Alive /\ nPublishes < MaxPublishes /\ pub = NoPub
  /\ nPublishes' = nPublishes + 1
  /\ LET rec == [key |-> k, event |-> ev, res |-> "none",
                 registered |-> k \in DOMAIN publishers,
                 exchange |-> PublishExchange(k), channel |-> FALSE,
                 conn |-> ProducerState]
         c == Channel("producer") IN
     IF ~PublisherRegistered(k)
     THEN /\ pub' = [rec EXCEPT !.res = "no_publisher"]
          /\ UNCHANGED <<published, crash>>
     ELSE IF ev = "not_proto"
     THEN /\ pub' = [rec EXCEPT !.res = "panic"]
          /\ Panic("type_assertion", "Publish", "producer")
          /\ UNCHANGED published
     ELSE IF ev = "unmarshalable"
     THEN /\ pub' = [rec EXCEPT !.res = "marshal_error"]
          /\ UNCHANGED <<published, crash>>
     ELSE IF c \in {"nil_connection", "nil_transport"}
     THEN /\ pub' = [rec EXCEPT !.res = "panic", !.channel = TRUE]
          /\ Panic(c, "Publish", "producer")
          /\ UNCHANGED published
     ELSE IF c = "error"
     THEN /\ pub' = [rec EXCEPT !.res = "channel_error", !.channel = TRUE]
          /\ UNCHANGED <<published, crash>>
     ELSE \E ok \in BOOLEAN :
            /\ pub' = [rec EXCEPT !.res = IF ok THEN "ok" ELSE "publish_error",
                                  !.channel = TRUE]
            /\ published' = IF ok
                 THEN Append(published, [exchange |-> PublishExchange(k), key |-> k,
                                         mode |-> "transient", ch |-> conn["producer"]])
                 ELSE published
            /\ UNCHANGED crash
  /\ UNCHANGED <<sessVars, connVars, fg, sd, shutdownSaw, consumeVars, ret, arg, replayed,
                 nSubs, nPubs>>

\* the Publish caller has looked at what the call returned
PublishReturns ==
  /\ Alive /\ pub # NoPub
  /\ pub' = NoPub
  /\ UNCHANGED <<sessVars, connVars, fg, sd, shutdownSaw, consumeVars, ret, arg, replayed,
                 published, crash, nSubs, nPubs, nPublishes>>

\* ------------------------------------------------------- Session.Consume
ConsumeStart ==
  /\ Alive /\ cs = "off"
  /\ cs' = "top"
  /\ UNCHANGED <<sessVars, connVars, fg, sd, shutdownSaw, feed, feedq, delivery, delivered,
                 dispatched, callVars, crash>>

\* select { case <-s.ctx.Done(): return; default: }
ConsumeCheckCancelled ==
  /\ Alive /\ cs = "top"
  /\ cs' = IF sessionCancelled THEN "returned" ELSE "isconn"
  /\ UNCHANGED <<sessVars, connVars, fg, sd, shutdownSaw, feed, feedq, delivery, delivered,
                 dispatched, callVars, crash>>

\* if !s.consumeConn.IsConnected() { time.Sleep(5 * time.Second); continue }
ConsumeIsConnected ==
  /\ Alive /\ cs = "isconn"
  /\ IF ~sessConn["consumer"]
     THEN /\ Panic("nil_connection", "Consume", "consumer")
          /\ UNCHANGED cs
     ELSE /\ cs' = IF IsConnected("consumer") THEN "channel" ELSE "top"
          /\ UNCHANGED crash
  /\ UNCHANGED <<sessVars, connVars, fg, sd, shutdownSaw, feed, feedq, delivery, delivered,
                 dispatched, callVars>>

\* Channel(), Qos, ch.Consume: a failure restarts the loop at once
ConsumeOpenFeed ==
  /\ Alive /\ cs = "channel"
  /\ LET c == Channel("consumer") IN
     IF c \in {"nil_connection", "nil_transport"}
     THEN /\ Panic(c, "Consume", "consumer")
          /\ UNCHANGED <<cs, feed, feedq>>
     ELSE /\ UNCHANGED crash
          /\ \E ok \in (IF c = "ok" THEN BOOLEAN ELSE {FALSE}) :
               IF ok THEN /\ cs' = "range"
                          /\ feed' = conn["consumer"]
                          /\ feedq' = <<>>
                     ELSE /\ cs' = "top"
                          /\ UNCHANGED <<feed, feedq>>
  /\ UNCHANGED <<sessVars, connVars, fg, sd, shutdownSaw, delivery, delivered, dispatched,
                 callVars>>

FeedOpen == feed # Nil /\ transport["consumer"][feed] = "open"

\* handler, ok := s.subscribers[routingKey] (session.go:215): ok, after a
\* variant that always finds one, and the handler, nil for a missing key
HasHandlerAlways(k) == TRUE
HasHandler(k) == k \in DOMAIN subscribers
SubscriberOf(k) == IF k \in DOMAIN subscribers THEN subscribers[k] ELSE ""

\* what Consume does with one delivery: handler(delivery), or
\* delivery.Nack(false, false), whose second argument is requeue
Dispatch(d) ==
  IF HasHandler(d.key)
  THEN [key |-> d.key, tag |-> d.tag, how |-> "handler", handler |-> SubscriberOf(d.key),
        requeue |-> FALSE]
  ELSE [key |-> d.key, tag |-> d.tag, how |-> "nack", handler |-> "", requeue |-> FALSE]

\* for delivery := range deliveries: the next delivery of the feed
\* (first a variant that does not wait for the handler: go handler(delivery))
ConsumeReceiveAsync ==
  /\ Alive /\ cs = "range" /\ feedq # <<>>
  /\ LET d == Head(feedq) IN
     /\ feedq' = Tail(feedq)
     /\ dispatched' = Append(dispatched, Dispatch(d))
     /\ delivery' = IF HasHandler(d.key) THEN d.key ELSE delivery
     /\ UNCHANGED cs
  /\ UNCHANGED <<sessVars, connVars, fg, sd, shutdownSaw, feed, delivered, callVars, crash>>
ConsumeReceive ==
  /\ Alive /\ cs = "range" /\ feedq # <<>>
  /\ LET d == Head(feedq) IN
     /\ feedq' = Tail(feedq)
     /\ dispatched' = Append(dispatched, Dispatch(d))
     /\ IF HasHandler(d.key)
        THEN /\ cs' = "handler"
             /\ delivery' = d.key
        ELSE UNCHANGED <<cs, delivery>>
  /\ UNCHANGED <<sessVars, connVars, fg, sd, shutdownSaw, feed, delivered, callVars, crash>>

ConsumeHandlerReturns ==
  /\ Alive /\ cs = "handler"
  /\ cs' = "range"
  /\ delivery' = ""
  /\ UNCHANGED <<sessVars, connVars, fg, sd, shutdownSaw, feed, feedq, delivered,
                 dispatched, callVars, crash>>

\* the deliveries channel is closed once the feed's transport is gone
ConsumeFeedEnds ==
  /\ Alive /\ cs = "range" /\ ~FeedOpen
  /\ cs' = "top"
  /\ feed' = Nil
  /\ feedq' = <<>>
  /\ UNCHANGED <<sessVars, connVars, fg, sd, shutdownSaw, delivery, delivered, dispatched,
                 callVars, crash>>

\* ------------------------------------------------ Connection's watchdog
\* monitorConnection: case <-c.ctx.Done(): return
WatchdogCancelled(r) ==
  /\ Alive /\ wd[r] = "select" /\ connCancelled[r]
  /\ wd' = [wd EXCEPT ![r] = "exit"]
  /\ UNCHANGED <<sessVars, conn, connected, connCancelled, notifyClose, transport, dials,
                 closeCalls, dial, fg, sd, shutdownSaw, consumeVars, callVars, crash>>

\* monitorConnection: an error arrives on c.notifyCloseConnection: reconnect()
\* (a receive from the channel once amqp has closed it changes nothing)
WatchdogNotified(r) ==
  /\ Alive /\ wd[r] = "select"
  /\ notifyClose[r] # Nil /\ transport[r][notifyClose[r]] = "lost"
  /\ transport' = [transport EXCEPT ![r][notifyClose[r]] = "dead"]
  /\ wd' = [wd EXCEPT ![r] = "reconnect"]
  /\ UNCHANGED <<sessVars, conn, connected, connCancelled, notifyClose, dials, closeCalls,
                 dial, fg, sd, shutdownSaw, consumeVars, callVars, crash>>

\* reconnect: case <-c.ctx.Done(): return
ReconnectCancelled(r) ==
  /\ Alive /\ wd[r] = "reconnect" /\ dial[r] = "idle" /\ connCancelled[r]
  /\ wd' = [wd EXCEPT ![r] = "select"]
  /\ UNCHANGED <<sessVars, conn, connected, connCancelled, notifyClose, transport, dials,
                 closeCalls, dial, fg, sd, shutdownSaw, consumeVars, callVars, crash>>

\* reconnect: default: c.dial(); first a variant that dials without looking
\* at the context
ReconnectDialIgnoringCancel(r) ==
  /\ Alive /\ wd[r] = "reconnect" /\ dial[r] = "idle"
  /\ DialBegin(r)
  /\ UNCHANGED <<sessVars, conn, connCancelled, notifyClose, transport, closeCalls, wd, fg,
                 sd, shutdownSaw, consumeVars, callVars, crash>>
ReconnectDial(r) ==
  /\ Alive /\ wd[r] = "reconnect" /\ dial[r] = "idle" /\ ~connCancelled[r]
  /\ DialBegin(r)
  /\ UNCHANGED <<sessVars, conn, connCancelled, notifyClose, transport, closeCalls, wd, fg,
                 sd, shutdownSaw, consumeVars, callVars, crash>>

\* reconnect: the dial failed: c.conn = nil (the dial's result), then the sleep
ReconnectFailed(r) ==
  /\ Alive /\ wd[r] = "reconnect" /\ dial[r] = "inflight"
  /\ conn' = [conn EXCEPT ![r] = Nil]
  /\ dial' = [dial EXCEPT ![r] = "idle"]
  /\ wd' = [wd EXCEPT ![r] = "sleep"]
  /\ UNCHANGED <<sessVars, connected, connCancelled, notifyClose, transport, dials,
                 closeCalls, fg, sd, shutdownSaw, consumeVars, callVars, crash>>

\* reconnect: time.Sleep(ReconnectDelay); continue
ReconnectSleepOver(r) ==
  /\ Alive /\ wd[r] = "sleep"
  /\ wd' = [wd EXCEPT ![r] = "reconnect"]
  /\ UNCHANGED <<sessVars, conn, connected, connCancelled, notifyClose, transport, dials,
                 closeCalls, dial, fg, sd, shutdownSaw, consumeVars, callVars, crash>>

\* reconnect: the dial succeeded: c.conn = conn; setConnected(true); return
ReconnectReturn(r) ==
  /\ Alive /\ wd[r] = "reconnect" /\ dial[r] = "returned"
  /\ conn' = [conn EXCEPT ![r] = dials[r]]
  /\ connected' = [connected EXCEPT ![r] = TRUE]
  /\ dial' = [dial EXCEPT ![r] = "idle"]
  /\ wd' = [wd EXCEPT ![r] = "select"]
  /\ UNCHANGED <<sessVars, connCancelled, notifyClose, transport, dials, closeCalls, fg, sd,
                 shutdownSaw, consumeVars, callVars, crash>>

\* ------------------------------------- Session.Shutdown, Connection.Shutdown
SdNext(r) ==
  IF r = "consumer" THEN [pc |-> "conn", role |-> "producer"]
                    ELSE [pc |-> "session", role |-> "producer"]

\* if s.<role>Conn != nil { Shutdown() }: Connection.Shutdown begins with
\* setConnected(false)
ShutdownConn ==
  /\ Alive /\ sd.pc \in {"off", "conn"}
  /\ IF sessConn[sd.role]
     THEN /\ connected' = [connected EXCEPT ![sd.role] = FALSE]
          /\ shutdownSaw' = [shutdownSaw EXCEPT ![sd.role] =
               IF connected[sd.role] THEN "connected" ELSE "disconnected"]
          /\ sd' = [sd EXCEPT !.pc = "cancel"]
     ELSE /\ sd' = SdNext(sd.role)
          /\ UNCHANGED <<connected, shutdownSaw>>
  /\ UNCHANGED <<sessVars, conn, connCancelled, notifyClose, transport, dials, closeCalls,
                 dial, wd, fg, consumeVars, callVars, crash>>

\* Connection.Shutdown: c.cancel()
ShutdownCancelConn ==
  /\ Alive /\ sd.pc = "cancel"
  /\ connCancelled' = [connCancelled EXCEPT ![sd.role] = TRUE]
  /\ sd' = [sd EXCEPT !.pc = "check"]
  /\ UNCHANGED <<sessVars, conn, connected, notifyClose, transport, dials, closeCalls,
                 dial, wd, fg, shutdownSaw, consumeVars, callVars, crash>>

\* Connection.Shutdown: if c.IsConnected() { ... }
ShutdownCheck ==
  /\ Alive /\ sd.pc = "check"
  /\ sd' = IF IsConnected(sd.role) THEN [sd EXCEPT !.pc = "close"] ELSE SdNext(sd.role)
  /\ UNCHANGED <<sessVars, connVars, fg, shutdownSaw, consumeVars, callVars, crash>>

\* Connection.Shutdown: c.conn.Close(); its error is logged
ShutdownClose ==
  /\ Alive /\ sd.pc = "close"
  /\ IF conn[sd.role] = Nil
     THEN /\ Panic("nil_transport", "Shutdown", sd.role)
          /\ UNCHANGED <<sd, transport, closeCalls>>
     ELSE /\ closeCalls' = [closeCalls EXCEPT ![sd.role] = @ + 1]
          /\ transport' = [transport EXCEPT ![sd.role][conn[sd.role]] =
               IF @ = "open" THEN "closed" ELSE @]
          /\ sd' = SdNext(sd.role)
          /\ UNCHANGED crash
  /\ UNCHANGED <<sessVars, conn, connected, connCancelled, notifyClose, dials, dial, wd, fg,
                 shutdownSaw, consumeVars, callVars>>

\* defer s.cancel()
ShutdownCancelSession ==
  /\ Alive /\ sd.pc = "session"
  /\ sessionCancelled' = TRUE
  /\ sd' = [sd EXCEPT !.pc = "done"]
  /\ UNCHANGED <<regVars, sessConn, connVars, fg, shutdownSaw, consumeVars, callVars, crash>>

\* ----------------------------------------------------------------- broker
\* the broker or the network ends a transport: amqp marks it closed and has
\* the error to send on its NotifyClose channel
BrokerCloses(r, h) ==
  /\ Alive /\ transport[r][h] = "open"
  /\ transport' = [transport EXCEPT ![r][h] = "lost"]
  /\ UNCHANGED <<sessVars, conn, connected, connCancelled, notifyClose, dials, closeCalls,
                 dial, wd, fg, sd, shutdownSaw, consumeVars, callVars, crash>>

\* the broker sends a delivery on the open feed, with the next delivery tag
BrokerDelivers(k) ==
  /\ Alive /\ cs \in {"range", "handler"} /\ FeedOpen
  /\ delivered < MaxDeliveries
  /\ delivered' = delivered + 1
  /\ feedq' = Append(feedq, [key |-> k, tag |-> delivered + 1])
  /\ UNCHANGED <<sessVars, connVars, fg, sd, shutdownSaw, cs, feed, delivery, dispatched,
                 callVars, crash>>

\* ----------------------------------------------------------- specification
\* a Connection's dial and watchdog while its lifecycle context is live
WatchdogStep(r) ==
  \/ DialSucceed(r)
  \/ DialSetConnected(r)
  \/ WatchdogNotified(r)
  \/ ReconnectDial(r)
  \/ ReconnectFailed(r)
  \/ ReconnectSleepOver(r)
  \/ ReconnectReturn(r)

ConnectionStep(r) ==
  \/ WatchdogStep(r)
  \/ WatchdogCancelled(r)
  \/ ReconnectCancelled(r)

DeclareStep ==
  \/ CallerContinues
  \/ DeclareStart
  \/ EnsureCreate
  \/ ConnectFailed
  \/ ConnectReturn
  \/ DeclareRole

ConsumeStep ==
  \/ ConsumeStart
  \/ ConsumeCheckCancelled
  \/ ConsumeIsConnected
  \/ ConsumeOpenFeed
  \/ ConsumeReceive
  \/ ConsumeHandlerReturns
  \/ ConsumeFeedEnds

ShutdownStep ==
  \/ ShutdownConn
  \/ ShutdownCancelConn
  \/ ShutdownCheck
  \/ ShutdownClose
  \/ ShutdownCancelSession

RegisterSubscriber ==
  nSubs < MaxSubs /\ AddSubscription(SessExchange, SessQueue, SessKey, SessHandler)
RegisterPublisher ==
  nPubs < MaxSubs /\ AddPublisher(SessExchange, SessKey)

\* every goroutine of the session and the broker
Next ==
  \/ RegisterSubscriber
  \/ RegisterPublisher
  \/ DeclareStep
  \/ \E k \in Keys, ev \in Events : Publish(k, ev)
  \/ PublishReturns
  \/ ConsumeStep
  \/ ShutdownStep
  \/ \E r \in Roles : ConnectionStep(r)
  \/ \E r \in Roles, h \in Handles : BrokerCloses(r, h)
  \/ \E k \in Keys : BrokerDelivers(k)

Spec == Init /\ [][Next]_vars

\* the registration API alone, over all its inputs
NextReg ==
  \/ \E q \in Queues, k \in Keys, h \in Handlers :
       nSubs < MaxRegs /\ AddSubscription(SessExchange, q, k, h)
  \/ \E e \in Exchanges, k \in Keys : nPubs < MaxRegs /\ AddPublisher(e, k)
  \/ CallerContinues

SpecReg == Init /\ [][NextReg]_vars

\* one Connection (the producer's) from Declare to Shutdown: the foreground
\* caller, the watchdog, Shutdown and the broker
NextConn ==
  \/ RegisterPublisher
  \/ DeclareStep
  \/ ShutdownStep
  \/ ConnectionStep("producer")
  \/ \E h \in Handles : BrokerCloses("producer", h)

SpecConn == Init /\ [][NextConn]_vars

\* the same with the watchdog goroutine scheduled: its sleep ends, and a
\* select whose ctx.Done() case is ready takes it
WatchdogFairness(r) ==
  /\ WF_vars(ReconnectSleepOver(r))
  /\ WF_vars(ReconnectCancelled(r))
  /\ WF_vars(WatchdogCancelled(r))

SpecConnFair == SpecConn /\ WatchdogFairness("producer")

\* one Connection (the producer's) that is never shut down, with a broker that
\* is back in the end: a reconnect dial fails, and a transport is lost, only while
\* another dial attempt is left
NextWatchdog ==
  \/ RegisterPublisher
  \/ DeclareStep
  \/ DialSucceed("producer")
  \/ DialSetConnected("producer")
  \/ WatchdogNotified("producer")
  \/ ReconnectDial("producer")
  \/ (dials["producer"] < MaxDials /\ ReconnectFailed("producer"))
  \/ ReconnectSleepOver("producer")
  \/ ReconnectReturn("producer")
  \/ \E h \in Handles : dials["producer"] < MaxDials /\ BrokerCloses("producer", h)

\* the watchdog goroutine is scheduled, and a dial that can only succeed does
DialFairness(r) ==
  /\ WF_vars(DialSucceed(r))
  /\ WF_vars(DialSetConnected(r))
  /\ WF_vars(WatchdogNotified(r))
  /\ WF_vars(ReconnectDial(r))
  /\ WF_vars(ReconnectSleepOver(r))
  /\ WF_vars(ReconnectReturn(r))

SpecWatchdog == Init /\ [][NextWatchdog]_vars /\ DialFairness("producer")

\* the publishing side: the foreground caller, Publish callers, the producer
\* Connection's watchdog and the broker
NextPublish ==
  \/ RegisterPublisher
  \/ DeclareStep
  \/ \E k \in Keys, ev \in Events : Publish(k, ev)
  \/ PublishReturns
  \/ ShutdownStep
  \/ ConnectionStep("producer")
  \/ \E h \in Handles : BrokerCloses("producer", h)

SpecPublish == Init /\ [][NextPublish]_vars

\* the publishing side while the session runs, without Shutdown
NextPublishRun ==
  \/ RegisterPublisher
  \/ DeclareStep
  \/ \E k \in Keys, ev \in Events : Publish(k, ev)
  \/ PublishReturns
  \/ WatchdogStep("producer")
  \/ \E h \in Handles : BrokerCloses("producer", h)

SpecPublishRun == Init /\ [][NextPublishRun]_vars

\* the consuming side while the session runs: the foreground caller, Consume,
\* the consumer Connection's watchdog and the broker
NextConsume ==
  \/ RegisterSubscriber
  \/ DeclareStep
  \/ ConsumeStep
  \/ WatchdogStep("consumer")
  \/ \E h \in Handles : BrokerCloses("consumer", h)
  \/ \E k \in Keys : BrokerDelivers(k)

SpecConsume == Init /\ [][NextConsume]_vars

\* the consuming side with Shutdown
NextShutdown ==
  \/ RegisterSubscriber
  \/ DeclareStep
  \/ ConsumeStep
  \/ ShutdownStep
  \/ ConnectionStep("consumer")
  \/ \E h \in Handles : BrokerCloses("consumer", h)
  \/ \E k \in Keys : BrokerDelivers(k)

SpecShutdown == Init /\ [][NextShutdown]_vars

\* topology application for both roles: registration and Declare against a
\* broker that may fail dials and declarations
NextDeclare ==
  \/ RegisterSubscriber
  \/ RegisterPublisher
  \/ DeclareStep
  \/ \E r \in Roles : DialSucceed(r) \/ DialSetConnected(r)
  \/ \E r \in Roles, h \in Handles : BrokerCloses(r, h)

SpecDeclare == Init /\ [][NextDeclare]_vars

\* ------------------------------------------------------------ properties
ShutdownReturned(r) ==
  \/ sd.pc \in {"session", "done"}
  \/ (r = "consumer" /\ sd.role = "producer" /\ sd.pc # "off")

\* C1: once Session.Shutdown() has returned on a session whose Consume() loop
\* was reading an open delivery feed of a connected consumer Connection, that
\* feed has been ended, so that the loop reaches its cancellation check.
C1_ShutdownEndsFeed ==
  (sd.pc = "done" /\ shutdownSaw["consumer"] = "connected" /\ cs \in {"range", "handler"})
    => ~FeedOpen

\* C2: when Connection.Shutdown() has returned on a Connection that was
\* connected at the call, the transport handle was closed exactly once and no
\* open handle of that Connection remains.
C2_ShutdownClosesTransport ==
  \A r \in Roles :
    (ShutdownReturned(r) /\ shutdownSaw[r] = "connected")
      => /\ closeCalls[r] = 1
         /\ \A h \in Handles : transport[r][h] # "open"

\* a Connection whose watchdog has seen the transport go and has not yet
\* reconnected
BrokerUnavailable(r) == sessConn[r] /\ wd[r] \in {"reconnect", "sleep"}

\* C3: while the broker is unavailable no goroutine panics on a nil
\* Connection or a nil transport handle: Consume() stalls and Publish()
\* returns errors.
C3_NoCrashOnBrokerLoss ==
  \A r \in Roles :
    BrokerUnavailable(r)
      => ~(crash.role = r /\ crash.cause \in {"nil_connection", "nil_transport"})

\* C4: from the start of a dial attempt until the new transport handle is
\* installed and the attempt has set the flag itself, IsConnected() is false.
C4_NotConnectedWhileDialing ==
  \A r \in Roles : dial[r] \in {"inflight", "installed"} => ~IsConnected(r)

\* a reconnect dial is in flight on a Connection that was connected before
C4_Witness ==
  /\ sd.pc = "off" /\ wd["producer"] = "reconnect"
  /\ dial["producer"] = "inflight" /\ dials["producer"] = 3

\* C5: Publish for a routing key with no registered publisher returns the
\* routing error, requests no channel and publishes nothing.
C5_UnregisteredPublishFails ==
  /\ (pub.res # "none" /\ ~pub.registered)
       => (pub.res = "no_publisher" /\ ~pub.channel)
  /\ \A i \in DOMAIN published : published[i].key \in DOMAIN publishers

\* an unregistered key is refused while no producer Connection exists
C5_Witness ==
  /\ pub.res = "no_publisher" /\ pub.conn = "none" /\ pub.event = "proto"
  /\ publishers # EmptyMap

\* C6: Publish for a registered routing key returns an error whenever no
\* producer Connection or no producer transport handle is there.
C6_PublishErrorsWithoutTransport ==
  (pub.registered /\ pub.event = "proto" /\ pub.conn \in {"none", "nil"})
    => pub.res = "channel_error"

\* C7: Channel() on a Connection with no transport handle set returns an
\* error: none of its callers panics on the missing handle.
C7_ChannelErrorsWithoutHandle ==
  ~(crash.cause = "nil_transport" /\ crash.op \in {"Declare", "Publish", "Consume"})

\* the queue names of the successful AddSubscription calls so far
RegisteredQueues ==
  {consumerDecls[i][2] : i \in {j \in DOMAIN consumerDecls : consumerDecls[j][1] = "queue"}}

AddSubscriptionRejected ==
  /\ ret'.op = "AddSubscription" /\ ret'.err = "queue_defined"
  /\ UNCHANGED <<consumerQueue, consumerDecls, subscribers>>

\* C8 as claimed: AddSubscription with a queue name different from the queue
\* name of any earlier successful AddSubscription returns an error and leaves
\* the queue name, the consumer declarations and the handler map unchanged.
C8_SecondQueueRejected ==
  [][(nSubs' # nSubs /\ \E q \in RegisteredQueues : q # arg'.queue)
       => AddSubscriptionRejected]_vars

\* C8 as amended: the same for an earlier successful AddSubscription whose
\* queue name is not empty.
C8_SecondQueueRejectedNonEmpty ==
  [][(nSubs' # nSubs /\ \E q \in RegisteredQueues : q # "" /\ q # arg'.queue)
       => AddSubscriptionRejected]_vars

\* a call is rejected after two registrations on another queue
C8_Witness ==
  /\ arg.op = "AddSubscription" /\ ret.err = "queue_defined"
  /\ Len(consumerDecls) = 6 /\ consumerQueue = "q2" /\ arg.queue = "q1"

\* C9: AddPublisher with a routing key already registered returns an error
\* and changes neither the mapping nor the producer declarations; a key's
\* exchange never changes, one declaration per key.
C9_DuplicatePublisherRejected ==
  [][/\ (nPubs' # nPubs /\ arg'.key \in DOMAIN publishers)
          => /\ ret'.op = "AddPublisher" /\ ret'.err = "already_registered"
             /\ UNCHANGED <<publishers, producerDecls>>
     /\ \A k \in DOMAIN publishers :
          k \in DOMAIN publishers' /\ publishers'[k] = publishers[k]
     /\ Len(producerDecls') = Cardinality(DOMAIN publishers')]_vars

\* a second AddPublisher for a key, with another exchange, is rejected
C9_Witness ==
  /\ arg.op = "AddPublisher" /\ ret.err = "already_registered"
  /\ publishers[arg.key] # arg.exchange

\* the declarations of both roles in the order Declare is to replay them
ReplayPlan ==
  [i \in 1..Len(consumerDecls) |-> <<"consumer", i>>]
    \o [i \in 1..Len(producerDecls) |-> <<"producer", i>>]
ReplayLog == [i \in 1..Len(replayed) |-> <<replayed[i].role, replayed[i].idx>>]
IsPrefix(a, b) == Len(a) <= Len(b) /\ \A i \in 1..Len(a) : a[i] = b[i]

C11_ConnectFailureAbortsDeclare ==
  [][/\ (fg.pc = "connect" /\ dial[fg.role] = "inflight" /\ dial'[fg.role] = "idle")
          => /\ fg'.pc = "returned"
             /\ ret'.op = "Declare" /\ ret'.err = "connect" /\ ret'.role = fg.role
     /\ ret'.err = "connect" => replayed' = <<>>
     /\ (arg.op = "Declare" /\ fg.pc \in {"create", "connect"}) => replayed = <<>>]_vars

\* the producer's Connect fails after the consumer's Connection is up, with
\* declarations of both roles registered
C11_Witness ==
  /\ fg.pc = "returned" /\ ret.err = "connect" /\ ret.role = "producer"
  /\ connected["consumer"] /\ Len(consumerDecls) = 3 /\ Len(producerDecls) = 1
  /\ replayed = <<>>

\* the delivery tags of a sequence of deliveries or of dispatch records
Tags(q) == [i \in 1..Len(q) |-> q[i].tag]
Increasing(t) == \A i, j \in 1..Len(t) : i < j => t[i] < t[j]

\* the Consume loop takes the next delivery of its feed
ConsumeTakes ==
  /\ cs = "range" /\ feedq # <<>> /\ feed # Nil
  /\ feed' = feed /\ feedq' = Tail(feedq)

\* C12: a delivery whose routing key has no handler is negative-acknowledged
\* once, without requeue, and no handler is invoked for it; the loop stays in
\* the same feed, ready for the next delivery, and does not return.
C12_UnroutedDeliveryNacked ==
  [][/\ (ConsumeTakes /\ Head(feedq).key \notin DOMAIN subscribers)
          => /\ dispatched' = Append(dispatched,
                   [key |-> Head(feedq).key, tag |-> Head(feedq).tag, how |-> "nack",
                    handler |-> "", requeue |-> FALSE])
             /\ cs' = "range"
     /\ Increasing(Tags(dispatched'))
     /\ \A i \in DOMAIN dispatched' :
          dispatched'[i].key \notin DOMAIN subscribers'
            => (dispatched'[i].how = "nack" /\ ~dispatched'[i].requeue)]_vars

\* an unroutable delivery was refused, and the loop went on to hand the next
\* delivery of the same feed to its handler
C12_Witness ==
  /\ Len(dispatched) = 2 /\ feed = 1 /\ FeedOpen
  /\ dispatched[1].how = "nack" /\ dispatched[1].key = "b"
  /\ dispatched[2].how = "handler" /\ dispatched[2].key = "a"

\* the consumer Connection's watchdog has handled a close notification: a
\* reconnect dial has been started
ConsumerReconnecting == wd["consumer"] # "off" /\ dials["consumer"] > 1

\* C13: a Consume() invocation that is running when a close notification
\* arrives on the consumer Connection lives through the outage, and once the
\* reconnect has succeeded the feed it reads is one opened on the new
\* transport handle.
C13_ConsumeResumesAfterReconnect ==
  (cs # "off" /\ ConsumerReconnecting)
    => /\ crash.op # "Consume"
       /\ (cs \in {"range", "handler"} /\ FeedOpen) => feed = conn["consumer"]

\* Connection.Shutdown() has cancelled the context while the reconnect loop
\* sleeps between two dial attempts
CancelledInSleep(r) == connCancelled[r] /\ wd[r] = "sleep"

\* C14: once Shutdown() has cancelled a Connection's context no dial attempt
\* is started, and a reconnect loop that was sleeping then leaves after the
\* sleep, the watchdog with it (the watchdog ends with the process if another
\* goroutine panics first).
C14_ShutdownDuringSleepStopsReconnect ==
  /\ [][\A r \in Roles : connCancelled[r] => dials'[r] = dials[r]]_vars
  /\ \A r \in Roles : CancelledInSleep(r) ~> (wd[r] = "exit" \/ ~Alive)

\* Shutdown() has returned while the loop sleeps after the first failed
\* reconnect dial, another dial attempt being possible
C14_Witness ==
  /\ sd.pc = "done" /\ CancelledInSleep("producer")
  /\ dials["producer"] = 2 /\ conn["producer"] = Nil

\* amqp has a close error to deliver for handle h, on the channel the
\* Connection's running watchdog listens on
CloseNotified(r, h) ==
  wd[r] # "off" /\ notifyClose[r] = h /\ transport[r][h] = "lost"

\* the watchdog is back in its select with a later handle installed, the
\* flag set and the close-notification channel registered on that handle
Reconnected(r, h) ==
  /\ wd[r] = "select" /\ connected[r]
  /\ conn[r] # Nil /\ conn[r] > h /\ notifyClose[r] = conn[r]

\* C15: without a Shutdown() and with a broker that is back in the end, every
\* close notification, on the first handle and on each later one, leads to a
\* connected Connection on a new handle, however many dials fail before; the
\* close-notification channel is always the one of the installed handle. (The
\* watchdog ends with the process if a foreground call panics meanwhile.)
C15_WatchdogReconnects ==
  /\ [](\A r \in Roles : conn[r] # Nil => notifyClose[r] = conn[r])
  /\ \A r \in Roles, h \in Handles :
       CloseNotified(r, h) ~> (Reconnected(r, h) \/ ~Alive)

\* two losses, each followed by a reconnect: the third handle is installed
C15_Witness ==
  /\ Reconnected("producer", 2) /\ Alive
  /\ transport["producer"][1] = "dead" /\ transport["producer"][2] = "dead"

\* C16: on one unbroken feed every delivery with a registered routing key is
\* handed to that key's handler once, in the order of the feed, the next one
\* only after the handler has returned, and Consume itself neither
\* acknowledges nor refuses it; nothing the broker sent on the feed is skipped.
C16_HandlersInFeedOrder ==
  [][/\ (ConsumeTakes /\ Head(feedq).key \in DOMAIN subscribers)
          => /\ dispatched' = Append(dispatched,
                   [key |-> Head(feedq).key, tag |-> Head(feedq).tag, how |-> "handler",
                    handler |-> subscribers[Head(feedq).key], requeue |-> FALSE])
             /\ cs' = "handler"
     /\ dispatched' # dispatched => (cs = "range" /\ delivery = "")
     /\ Increasing(Tags(dispatched'))
     /\ \A i \in DOMAIN dispatched' :
          dispatched'[i].key \in DOMAIN subscribers' => dispatched'[i].how = "handler"
     /\ (feed' = 1 /\ transport'["consumer"][1] = "open")
          => Tags(dispatched') \o Tags(feedq') = [i \in 1..delivered' |-> i]]_vars

\* two deliveries of the registered key were handled one after the other on
\* the first feed
C16_Witness ==
  /\ Len(dispatched) = 2 /\ feed = 1 /\ FeedOpen /\ cs = "range"
  /\ \A i \in 1..2 : dispatched[i] = [key |-> "a", tag |-> i, how |-> "handler",
                                      handler |-> SessHandler, requeue |-> FALSE]

\* C17: a Publish call that returns nil has made one broker publish, on a
\* channel it obtained from the producer Connection's installed, open handle,
\* to the exchange registered for its routing key, with that routing key and
\* the transient delivery mode; nothing else adds a publish.
C17_PublishCallsBrokerOnce ==
  [][/\ (nPublishes' # nPublishes /\ pub'.res = "ok")
          => /\ pub'.key \in DOMAIN publishers
             /\ pub'.channel
             /\ conn["producer"] # Nil /\ transport["producer"][conn["producer"]] = "open"
             /\ published' = Append(published,
                   [exchange |-> publishers[pub'.key], key |-> pub'.key,
                    mode |-> "transient", ch |-> conn["producer"]])
     /\ (nPublishes' = nPublishes \/ pub'.res # "ok") => published' = published]_vars

\* Declare() has returned nil and a Publish of the registered key succeeded
C17_Witness ==
  /\ fg.pc = "returned" /\ ret.op = "Declare" /\ ret.err = "none"
  /\ pub.res = "ok" /\ pub.key = SessKey
  /\ published = <<[exchange |-> SessExchange, key |-> SessKey, mode |-> "transient",
                    ch |-> 1]>>

\* The statements of Connection that touch c.conn or c.notifyCloseConnection
\* outside connMutex, by the position of the goroutine that executes them:
\* Connect's and reconnect's `c.conn, err = c.dial()` assign the result after
\* dial() has released the mutex, Shutdown's c.conn.Close() and
\* monitorConnection's receive from c.notifyCloseConnection read the field
\* without taking it.
ConnectWritesConn(r) ==
  fg.pc = "connect" /\ fg.role = r /\ dial[r] \in {"inflight", "returned"}
ReconnectWritesConn(r) ==
  wd[r] = "reconnect" /\ dial[r] \in {"inflight", "returned"}
ShutdownReadsConn(r) == sd.pc = "close" /\ sd.role = r
WatchdogReadsNotifyClose(r) == wd[r] = "select"
UnlockedAccess(r) ==
  \/ ConnectWritesConn(r)
  \/ ReconnectWritesConn(r)
  \/ ShutdownReadsConn(r)
  \/ WatchdogReadsNotifyClose(r)

\* C18: no goroutine is ever at a statement that reads or writes a
\* Connection's flag, handle or close-notification channel outside the mutex.
C18_AllAccessesUnderMutex == \A r \in Roles : Alive => ~UnlockedAccess(r)

\* the installed handle can open channels
HandleUsable(r) == conn[r] # Nil /\ transport[r][conn[r]] = "open"

\* C19: a Connection whose flag is set has an installed, usable handle, and
\* every step that clears the flag is the step that closes or replaces the
\* handle.
C19_ConnectedMeansUsable ==
  /\ [](\A r \in Roles : connected[r] => HandleUsable(r))
  /\ [][\A r \in Roles :
          (connected[r] /\ ~connected'[r])
            => \/ conn'[r] # conn[r]
               \/ (HandleUsable(r) /\ transport'[r][conn[r]] # "open")]_vars

\* a Declare() call has just returned; the registrations were all made before
DeclareReturned == arg.op = "Declare" /\ fg.pc = "returned"

CreatesConnection(r) == fg.pc = "create" /\ fg.role = r /\ fg'.pc = "connect"

\* a Session never replaces or drops a Connection, creates one for a role
\* only when it has none, dials it for the first time then, and a watchdog is
\* started only by the Connect() of a Connection that has none, and is the
\* Connection's for good
OneConnectionPerRole ==
  [][\A r \in Roles :
       /\ sessConn[r] => sessConn'[r]
       /\ (CreatesConnection(r) \/ sessConn'[r] # sessConn[r])
            => (~sessConn[r] /\ sessConn'[r] /\ dials[r] = 0 /\ wd[r] = "off")
       /\ wd[r] # "off" => wd'[r] # "off"
       /\ (wd[r] = "off" /\ wd'[r] # "off")
            => (fg.pc = "connect" /\ fg.role = r /\ dial[r] = "returned")]_vars

\* the Session has a Connection for r whose Connect() has returned
ConnectDone(r) == sessConn[r] /\ ~(fg.pc = "connect" /\ fg.role = r)

\* C21 as claimed: each role's Connection is created and first dialled at
\* most once, and every Connection has one watchdog.
C21_OneConnectionOneWatchdog ==
  /\ OneConnectionPerRole
  /\ [](\A r \in Roles : ConnectDone(r) => wd[r] # "off")

\* C21 as amended: the same, with one watchdog for every Connection whose
\* first dial succeeded and none for one whose first dial failed.
C21_OneWatchdogPerConnectedConnection ==
  /\ OneConnectionPerRole
  /\ [](\A r \in Roles :
          ConnectDone(r) => (wd[r] # "off" <=> transport[r][1] # "unused"))

\* the consumer's Connection has its watchdog, the producer's first dial has
\* failed and its Connection has none
C21_Witness ==
  /\ DeclareReturned /\ ret.role = "producer"
  /\ ConnectDone("consumer") /\ wd["consumer"] = "select" /\ dials["consumer"] = 1
  /\ ConnectDone("producer") /\ wd["producer"] = "off" /\ dials["producer"] = 1

\* the routing keys bound by the consumer declarations
BoundKeys ==
  {consumerDecls[i][2] : i \in {j \in DOMAIN consumerDecls : consumerDecls[j][1] = "binding"}}

\* C22: an AddSubscription call whose queue name is the one of all earlier
\* calls succeeds, appends the exchange, queue and binding declarations of
\* its arguments in that order, and sets the handler of its routing key,
\* leaving the handlers of the other keys; the handler map has one handler
\* for each bound routing key.
C22_SameQueueAccumulates ==
  [][/\ (nSubs' # nSubs /\ RegisteredQueues \subseteq {arg'.queue})
          => /\ ret'.op = "AddSubscription" /\ ret'.err = "none"
             /\ consumerQueue' = arg'.queue
             /\ consumerDecls' = consumerDecls \o
                   <<AutoExchange(arg'.exchange), AutoQueue(arg'.queue),
                     AutoBinding(arg'.key, arg'.queue, arg'.exchange)>>
             /\ DOMAIN subscribers' = DOMAIN subscribers \cup {arg'.key}
             /\ subscribers'[arg'.key] = arg'.handler
             /\ \A k \in DOMAIN subscribers \ {arg'.key} : subscribers'[k] = subscribers[k]
     /\ DOMAIN subscribers' = BoundKeys'
     /\ Len(consumerDecls') = 3 * Cardinality({i \in DOMAIN consumerDecls' :
                                                consumerDecls'[i][1] = "binding"})]_vars

\* three calls on queue q1: key a, key b, and key a again with another handler
C22_Witness ==
  /\ arg.op = "AddSubscription" /\ ret.err = "none" /\ RegisteredQueues = {"q1"}
  /\ Len(consumerDecls) = 9
  /\ consumerDecls[3][2] = "a" /\ consumerDecls[6][2] = "b" /\ consumerDecls[9][2] = "a"
  /\ subscribers = [k \in {"a", "b"} |-> IF k = "a" THEN "H2" ELSE "H1"]

\* Connection.Shutdown() has been invoked on role r's Connection
ShutdownInvoked(r) == shutdownSaw[r] # "none"

\* C23: once Shutdown() has been invoked on a Connection its flag is never
\* set again and no transport handle is installed on it any more.
C23_ShutdownIsFinal ==
  /\ [](\A r \in Roles : ShutdownInvoked(r) => ~IsConnected(r))
  /\ [][\A r \in Roles :
          ShutdownInvoked(r) => (conn'[r] = conn[r] \/ conn'[r] = Nil)]_vars

\* role r's Connection is in the Session and its Connect() has returned the
\* dial's error: no watchdog was started for it
InitialDialFailed(r) ==
  sessConn[r] /\ wd[r] = "off" /\ ~(fg.pc = "connect" /\ fg.role = r)

\* C24: a Declare() that starts after the initial dial of a role's Connection
\* failed attempts that dial again, and Declare() never gets to request a
\* channel for a role whose initial dial never succeeded.
C24_FailedConnectIsRetried ==
  /\ [](\A r \in Roles :
          InitialDialFailed(r)
            => ~(fg.pc = "replay" /\ fg.role = r /\ Len(Decls(r)) > 0))
  /\ [][\A r \in Roles :
          (InitialDialFailed(r) /\ fg.pc = "idle" /\ fg'.pc # "idle"
             /\ arg'.op = "Declare")
            => (fg'.pc = "create" /\ dials'[r] > dials[r])]_vars

\* Declare() is about to request role r's channel and Channel() will return
\* an error
ChannelUnavailable(r) ==
  fg.pc = "replay" /\ fg.role = r /\ Len(Decls(r)) > 0 /\ Channel(r) = "error"

\* C25: when Channel() returns an error to Declare(), Declare() returns an
\* error and no declaration is invoked with the missing channel handle.
C25_ChannelErrorAbortsDeclare ==
  /\ [](\A i \in DOMAIN replayed : ~replayed[i].nilch)
  /\ [][\A r \in Roles :
          (ChannelUnavailable(r) /\ (fg' # fg \/ crash' # crash))
            => /\ fg'.pc = "returned" /\ ret'.op = "Declare" /\ ret'.err # "none"
               /\ crash' = crash /\ replayed' = replayed]_vars

====
